---- MODULE Spec2Model ----
(***************************************************************************)
(* The echo-vault reconciliation engine (src/echo-vault/enclave/tasks.py,  *)
(* class EchoTask) together with the three collaborators it talks to: the  *)
(* ledger gateway (chain.py), the remote signer and the S3-style blob      *)
(* store (odyn.py).                                                        *)
(*                                                                         *)
(* One action models one step of the background loop between two calls to  *)
(* a collaborator that can change something outside the process:           *)
(*   Start       EchoTask.start           (load or legacy recovery)        *)
(*   Poll        _run, line 187           (height query)                   *)
(*   ScanBlock   _run 190-208 + _process_block, one block                  *)
(*   BeginClear  _run 211 + _clear_pending 146-155 (the batch nonce)       *)
(*   Resolve     _clear_pending 157-181 + _echo_transfer, one record       *)
(*   Persist     _persist_if_dirty + sleep (lines 214, 219, 224)           *)
(*   Crash       the process dies; memory is lost, store and ledger stay   *)
(* The environment moves by NewBlock, Confirm (a broadcast transaction is  *)
(* mined) and Tick (the save interval elapses).                            *)
(* GetStatus and GetHistory are the two endpoints of app.py that read the  *)
(* engine's fields from another thread.                                    *)
(*                                                                         *)
(* Python values are kept as the code keeps them: value, echo_value and    *)
(* gas_fee are decimal strings (str(n)), read back with int(s); hashes are *)
(* strings normalised to a "0x" prefix.  The record's "timestamp" field is *)
(* written by the code but read only by the legacy sort, which reads the   *)
(* legacy blobs' own timestamps; it is not part of the in-memory record    *)
(* here.                                                                   *)
(***************************************************************************)
EXTENDS Integers, Sequences, FiniteSets, TLC

VARIABLES
    \* ---- EchoTask fields (tasks.py 18-33)
    is_running,        \* self.is_running
    last_block,        \* self.last_block
    persisted_block,   \* self.persisted_block
    processed_count,   \* self.processed_count
    history,           \* self.history, newest first
    pending_hashes,    \* self.pending_hashes, a list
    dirty,             \* self._dirty
    save_due,          \* time.time() - self._last_save_at > self._save_interval
    \* ---- locals of _run / _clear_pending
    pc,                \* where the background thread stands
    current_block,     \* _run: current_block
    b,                 \* _run: loop variable b
    current_nonce,     \* _clear_pending: current_nonce
    batch,             \* _clear_pending: the rest of list(self.pending_hashes)
    \* ---- durable blob store
    s3_state,          \* blob "state.json" (NoBlob when absent)
    s3_last_block,     \* legacy blob "last_block" (None when absent)
    s3_echoes,         \* legacy blobs under "echoes/", in s3_list order
    \* ---- ledger
    ledger_blocks,     \* the transactions of each block
    height,            \* eth.block_number
    chain_txs,         \* transactions the ledger accepted from the address, by nonce
    mined,             \* how many of chain_txs are included in a block
    \* ---- observation of the last resolution attempt and of the run
    attempt,           \* what the last Resolve step was given and did
    iter_start_block,  \* last_block when the current iteration began
    attempted,         \* hashes _echo_transfer was called for in this iteration
    ever_terminal,     \* hashes whose record has been success or skipped
    dup_skipped,       \* hashes the scan's line 249 check has turned away
    boot,              \* how this process started and what it did first
    scanlog,           \* what the block fetches were asked and answered
    owed,              \* hashes left behind a deferred record in the last iteration
    \* ---- the status and history endpoints (app.py 67-82)
    rd_pc,             \* the line get_status stands at
    response,          \* the status response being built, then returned
    history_response,  \* what get_history returned
    observe,           \* which of the observations above this run keeps
    \* ---- the threads start() has launched
    threads,           \* how many _run threads are alive
    \* ---- the environment of this run
    faults             \* which collaborators may fail in this run

vars == <<is_running, last_block, persisted_block, processed_count, history,
          pending_hashes, dirty, save_due, pc, current_block, b, current_nonce,
          batch, s3_state, s3_last_block, s3_echoes, ledger_blocks, height,
          chain_txs, mined, attempt, iter_start_block, attempted, ever_terminal, dup_skipped,
          boot, scanlog, owed, rd_pc, response, history_response, observe, threads,
          faults>>

mem_vars == <<is_running, last_block, persisted_block, processed_count, history,
              pending_hashes, dirty, save_due>>
loop_vars == <<pc, current_block, b, current_nonce, batch>>
store_vars == <<s3_state, s3_last_block, s3_echoes>>
ledger_vars == <<ledger_blocks, height, chain_txs, mined>>
run_vars == <<observe, faults, threads>>
rd_vars == <<rd_pc, response, history_response>>
obs_vars == <<attempt, iter_start_block, attempted, ever_terminal, dup_skipped,
              boot, scanlog, owed, rd_vars, run_vars>>

----------------------------------------------------------------------------
(* Bounds of the model *)

\* blocks the ledger can grow to
MaxHeight == 2
\* transactions the ledger accepts from the controlled address
MaxLedgerTxs == 2
\* the cap of self.history; the code's 100 (tasks.py 266), scaled down to
\* one more than the transfers of the ledger
HistoryCap == 3

(* Program constants *)

\* tasks.py 285: gas_limit = 21000
gas_limit == 21000
\* tasks.py 33: self._block_checkpoint_interval = 200, scaled to the model's chain
block_checkpoint_interval == 2

None == "<None>"
NoBlob == [absent |-> TRUE]

\* odyn.eth_address(), fetched once in __init__ (tasks.py 21)
address == "0xVault"

----------------------------------------------------------------------------
(* Python conversions *)

\* str.lower() on the addresses that occur
Lower(s) ==
    CASE s = "0xVault" -> "0xvault"
      [] s = "0xVAULT" -> "0xvault"
      [] s = "0xAlice" -> "0xalice"
      [] s = "0xBob" -> "0xbob"
      [] OTHER -> s

\* str(n) for a non-negative int
str(n) == ToString(n)

DigitOf(c) ==
    CASE c = "0" -> 0 [] c = "1" -> 1 [] c = "2" -> 2 [] c = "3" -> 3
      [] c = "4" -> 4 [] c = "5" -> 5 [] c = "6" -> 6 [] c = "7" -> 7
      [] c = "8" -> 8 [] c = "9" -> 9 [] OTHER -> -1

IsDecimal(s) ==
    /\ Len(s) > 0
    /\ \A i \in 1..Len(s) : DigitOf(SubSeq(s, i, i)) >= 0

\* int(s) for a decimal string (Python raises ValueError otherwise; callers
\* test IsDecimal first)
RECURSIVE int(_)
int(s) ==
    IF Len(s) = 0 THEN 0
    ELSE int(SubSeq(s, 1, Len(s) - 1)) * 10 + DigitOf(SubSeq(s, Len(s), Len(s)))

\* tasks.py 245-247: the hash as hex text, with a "0x" prefix
TxHashStr(raw_hash) ==
    IF Len(raw_hash) >= 2 /\ SubSeq(raw_hash, 1, 2) = "0x"
    THEN raw_hash
    ELSE "0x" \o raw_hash

Min(x, y) == IF x <= y THEN x ELSE y
Max(x, y) == IF x >= y THEN x ELSE y

Range(s) == {s[i] : i \in 1..Len(s)}

\* list.remove(x): drops the first occurrence
RECURSIVE ListRemove(_, _)
ListRemove(s, x) ==
    IF s = <<>> THEN <<>>
    ELSE IF Head(s) = x THEN Tail(s)
    ELSE <<Head(s)>> \o ListRemove(Tail(s), x)

----------------------------------------------------------------------------
(* The ledger's blocks: what get_block_transactions(n) returns *)

Tx(h, f, t, v) == [hash |-> h, from |-> f, to |-> t, value |-> v]

\* Two transfers to the controlled address, from two senders, among
\* transactions that do not qualify (another recipient, sent by the address
\* itself, no value).  The gateway gives a hash with or without "0x" and an
\* address in either case.
TwoTransfers ==
    << << Tx("a1", "0xAlice", "0xVAULT", 100000),
          Tx("0xc1", "0xAlice", "0xOther", 500) >>,
       << Tx("0xd2", "0xVault", "0xVault", 700),
          Tx("0xb2", "0xBob", "0xVault", 40000),
          Tx("0xe2", "0xBob", "0xVault", 0) >> >>

\* The same two transfers, both in block 1: the ledger as it stands when the
\* store holds legacy blobs for both
BothInBlockOne ==
    << << Tx("a1", "0xAlice", "0xVAULT", 100000),
          Tx("0xc1", "0xAlice", "0xOther", 500),
          Tx("0xb2", "0xBob", "0xVault", 40000) >>,
       << Tx("0xd2", "0xVault", "0xVault", 700),
          Tx("0xe2", "0xBob", "0xVault", 0) >> >>

\* Four transfers to the controlled address, two in each block: one more
\* than history holds
FourTransfers ==
    << << Tx("0xa1", "0xAlice", "0xVault", 100000),
          Tx("0xf1", "0xBob", "0xVault", 40000) >>,
       << Tx("0xb2", "0xBob", "0xVault", 40000),
          Tx("0xg2", "0xAlice", "0xVault", 100000) >> >>

\* chain.py 57-59: get_block_transactions(n)
BlockTransactions(n) ==
    IF n \in DOMAIN ledger_blocks THEN ledger_blocks[n] ELSE << >>

\* what get_balance and estimate_fees can answer: with max_fee 1 the safe gas
\* cost is 23,100 (below both transfers' values), with 2 it is 46,200
\* (between them); the balance is below the gas cost, or between the two
\* transfers' values
BalanceChoices == {0, 50000}
MaxFeeChoices == {1, 2}

----------------------------------------------------------------------------
(* The in-memory EngineState as one value, for the operators below *)

Mem ==
    [last_block |-> last_block, persisted_block |-> persisted_block,
     processed_count |-> processed_count, history |-> history,
     pending_hashes |-> pending_hashes, dirty |-> dirty, save_due |-> save_due]

\* tasks.py 22-31: the fields as __init__ leaves them.  _last_save_at = 0, so
\* the save interval has elapsed.
InitMem ==
    [last_block |-> 0, persisted_block |-> 0, processed_count |-> 0,
     history |-> <<>>, pending_hashes |-> <<>>, dirty |-> FALSE, save_due |-> TRUE]

SetMem(m) ==
    /\ last_block' = m.last_block
    /\ persisted_block' = m.persisted_block
    /\ processed_count' = m.processed_count
    /\ history' = m.history
    /\ pending_hashes' = m.pending_hashes
    /\ dirty' = m.dirty
    /\ save_due' = m.save_due

\* what s3_put can answer: stored, {"success": false}, or an HTTP error
PutResults == {"ok", "false", "raise"}
PutAnswers == IF "store" \in faults THEN PutResults ELSE {"ok"}

\* what get_latest_block can answer when the ledger stands at h: h, or, from
\* a gateway that lags, a lower height
ReportedHeights(h) == IF "stale" \in faults THEN 0..h ELSE {h}

\* what get_block_transactions can answer: the block, a transient error, or
\* the error that the block is outside the history window
FetchAnswers ==
    IF "gateway" \in faults THEN {"ok", "error", "history_limit"} ELSE {"ok"}

\* tasks.py 85-91: the serialised state ("updated_at" is never read back)
SnapshotOf(m) ==
    [absent |-> FALSE, last_block |-> m.last_block,
     processed_count |-> m.processed_count, history |-> m.history,
     pending_hashes |-> m.pending_hashes]

\* _save_state recording the time of the save before it knows that the put
\* succeeded
save_state_stamped_early(m, blob, force, put) ==
    IF ~force /\ ~m.dirty
    THEN [m |-> m, blob |-> blob]
    ELSE IF put = "ok"
         THEN [m |-> [m EXCEPT !.dirty = FALSE, !.save_due = FALSE,
                                !.persisted_block = m.last_block],
               blob |-> SnapshotOf(m)]
         ELSE [m |-> [m EXCEPT !.save_due = FALSE], blob |-> blob]

\* tasks.py 79-99: _save_state(force) with the store answering `put`.
\* Gives the memory and the "state.json" blob afterwards.
save_state(m, blob, force, put) ==
    IF ~force /\ ~m.dirty
    THEN [m |-> m, blob |-> blob]
    ELSE IF put = "ok"
         THEN [m |-> [m EXCEPT !.dirty = FALSE, !.save_due = FALSE,
                                !.persisted_block = m.last_block],
               blob |-> SnapshotOf(m)]
         ELSE [m |-> m, blob |-> blob]

\* _persist_if_dirty saving whenever the state is dirty, whatever the time
\* since the last save
persist_if_dirty_every_time(m, blob, put) ==
    IF m.dirty
    THEN save_state(m, blob, FALSE, put)
    ELSE [m |-> m, blob |-> blob]

\* tasks.py 101-104
persist_if_dirty(m, blob, put) ==
    IF m.dirty /\ m.save_due
    THEN save_state(m, blob, FALSE, put)
    ELSE [m |-> m, blob |-> blob]

\* _load_state that restores persisted_block from the snapshot and leaves
\* last_block as __init__ set it
load_state_persisted_only(m, blob, get_ok) ==
    IF ~get_ok \/ blob.absent
    THEN [ok |-> FALSE, m |-> m]
    ELSE [ok |-> TRUE,
          m |-> [m EXCEPT !.persisted_block = blob.last_block,
                          !.processed_count = blob.processed_count,
                          !.history = blob.history,
                          !.pending_hashes = blob.pending_hashes]]

\* _load_state that restores history and pending_hashes but forgets the
\* block marker
load_state_without_block(m, blob, get_ok) ==
    IF ~get_ok \/ blob.absent
    THEN [ok |-> FALSE, m |-> m]
    ELSE [ok |-> TRUE,
          m |-> [m EXCEPT !.processed_count = blob.processed_count,
                          !.history = blob.history,
                          !.pending_hashes = blob.pending_hashes]]

\* tasks.py 60-77: _load_state with s3_get answering (get_ok) or raising.
\* ok is the method's return value.
load_state(m, blob, get_ok) ==
    IF ~get_ok \/ blob.absent
    THEN [ok |-> FALSE, m |-> m]
    ELSE [ok |-> TRUE,
          m |-> [m EXCEPT !.last_block = blob.last_block,
                          !.persisted_block = blob.last_block,
                          !.processed_count = blob.processed_count,
                          !.history = blob.history,
                          !.pending_hashes = blob.pending_hashes]]

\* the in-memory record made of a legacy blob (json.loads; "timestamp" is
\* used for the sort only)
RecordOf(e) ==
    [incoming_hash |-> e.incoming_hash, from |-> e.from, value |-> e.value,
     block_number |-> e.block_number, status |-> e.status,
     echo_hash |-> e.echo_hash, echo_value |-> e.echo_value, gas_fee |-> e.gas_fee]

\* tasks.py 135: list.sort(key=timestamp, reverse=True), which is stable
RECURSIVE InsertDesc(_, _)
InsertDesc(sorted, e) ==
    IF sorted = <<>> THEN <<e>>
    ELSE IF Head(sorted).timestamp >= e.timestamp
         THEN <<Head(sorted)>> \o InsertDesc(Tail(sorted), e)
         ELSE <<e>> \o sorted

RECURSIVE SortDesc(_)
SortDesc(s) ==
    IF s = <<>> THEN <<>>
    ELSE InsertDesc(SortDesc(SubSeq(s, 1, Len(s) - 1)), s[Len(s)])

FirstN(s, n) == SubSeq(s, 1, Min(Len(s), n))

MapSeq(s, F(_)) == [i \in 1..Len(s) |-> F(s[i])]

IsLegacyPending(e) == e.status \in {"received", "failed"}
IsLegacySuccess(e) == e.status = "success"
HashOfBlob(e) == e.incoming_hash

\* tasks.py 110-142: _recover_state_from_s3_legacy with the store answering
\* (list_ok) or raising somewhere in the listing and reading
recover_state_from_s3_legacy(m, echoes, list_ok) ==
    IF ~list_ok THEN m
    ELSE [m EXCEPT
            !.history = FirstN(MapSeq(SortDesc(echoes), RecordOf), HistoryCap),
            !.pending_hashes = MapSeq(SelectSeq(echoes, IsLegacyPending), HashOfBlob),
            !.processed_count = Len(SelectSeq(echoes, IsLegacySuccess))]

----------------------------------------------------------------------------
(* Detection: _process_block *)

InHistory(hist, h) == \E i \in 1..Len(hist) : hist[i].incoming_hash = h

\* tasks.py 252-262
NewRecord(tx, tx_hash, block_number) ==
    [incoming_hash |-> tx_hash, from |-> tx.from, value |-> str(tx.value),
     block_number |-> block_number, status |-> "received", echo_hash |-> None,
     echo_value |-> "Transfer detected", gas_fee |-> None]

\* the test of lines 240-242 comparing the addresses as they are written
Qualifies_case_sensitive(tx) ==
    /\ tx.to # None /\ tx.to = address /\ tx.value > 0
    /\ ~(tx.from # None /\ tx.from = address)

\* tasks.py 240-242: the transfer is to the controlled address, carries value
\* and does not come from the controlled address
Qualifies(tx) ==
    /\ tx.to # None /\ Lower(tx.to) = Lower(address) /\ tx.value > 0
    /\ ~(tx.from # None /\ Lower(tx.from) = Lower(address))

\* the loop over the block's transactions without line 249's test
RECURSIVE scan_txs_unchecked(_, _, _)
scan_txs_unchecked(txs, block_number, acc) ==
    IF txs = <<>> THEN acc
    ELSE LET tx == Head(txs)
             tx_hash == TxHashStr(tx.hash)
         IN  IF ~Qualifies(tx)
             THEN scan_txs_unchecked(Tail(txs), block_number, acc)
             ELSE scan_txs_unchecked(Tail(txs), block_number,
                      [acc EXCEPT
                         !.pending_hashes = Append(acc.pending_hashes, tx_hash),
                         !.history = FirstN(<<NewRecord(tx, tx_hash, block_number)>>
                                            \o acc.history, HistoryCap),
                         !.found_count = acc.found_count + 1,
                         !.dups = IF InHistory(acc.history, tx_hash)
                                  THEN acc.dups \cup {tx_hash} ELSE acc.dups])

\* tasks.py 239-270: the loop over the block's transactions.  acc carries
\* history, pending_hashes, found_count and the hashes line 249 turned away.
RECURSIVE scan_txs(_, _, _)
scan_txs(txs, block_number, acc) ==
    IF txs = <<>> THEN acc
    ELSE LET tx == Head(txs)
             tx_hash == TxHashStr(tx.hash)
         IN  IF ~Qualifies(tx)
             THEN scan_txs(Tail(txs), block_number, acc)
             ELSE IF InHistory(acc.history, tx_hash)
             THEN scan_txs(Tail(txs), block_number,
                           [acc EXCEPT !.dups = acc.dups \cup {tx_hash}])
             ELSE scan_txs(Tail(txs), block_number,
                      [acc EXCEPT
                         !.pending_hashes = Append(acc.pending_hashes, tx_hash),
                         !.history = FirstN(<<NewRecord(tx, tx_hash, block_number)>>
                                            \o acc.history, HistoryCap),
                         !.found_count = acc.found_count + 1])

\* tasks.py 227-272: _process_block for a block the gateway returned ("ok") or
\* failed to return with a transient error ("error": logged, 0 found)
process_block(hist, pend, block_number, fetch) ==
    LET acc0 == [history |-> hist, pending_hashes |-> pend, found_count |-> 0,
                 dups |-> {}]
    IN  IF fetch = "ok" THEN scan_txs(BlockTransactions(block_number), block_number, acc0)
        ELSE acc0

----------------------------------------------------------------------------
(* Resolution: _echo_transfer against the ledger *)

\* tasks.py 287-288: int(gas_limit * max_fee * 1.1); the float product is
\* exact to the unit at the magnitudes used here
SafeGasCost(max_fee) == (gas_limit * max_fee * 11) \div 10

\* the hash the gateway returns for an accepted transaction
EchoHashOf(nonce, tx) ==
    "0xecho-" \o ToString(nonce) \o "-" \o tx.to \o "-" \o ToString(tx.value)
        \o "-" \o ToString(tx.max_fee)

SameTx(t1, t2) == t1.to = t2.to /\ t1.value = t2.value /\ t1.max_fee = t2.max_fee

\* The ledger's answer to send_raw_transaction for tx with this nonce, given
\* the transactions it holds (txs[i] has nonce i-1; the first n_mined are in
\* blocks, the rest wait in the pool).
LedgerSubmit(txs, n_mined, nonce, tx) ==
    IF nonce < n_mined
    THEN [result |-> "nonce too low", txs |-> txs]
    ELSE IF nonce < Len(txs)
    THEN IF SameTx(txs[nonce + 1], tx)
         THEN [result |-> "already known", txs |-> txs]
         ELSE IF tx.max_fee * 10 >= txs[nonce + 1].max_fee * 11
         THEN [result |-> "accepted", txs |-> [txs EXCEPT ![nonce + 1] = tx]]
         ELSE [result |-> "replacement transaction underpriced", txs |-> txs]
    ELSE IF nonce = Len(txs)
    THEN [result |-> "accepted", txs |-> Append(txs, tx)]
    ELSE [result |-> "nonce too high", txs |-> txs]

\* What the collaborators answer during one _echo_transfer call: the balance
\* and fee queries and the signer answer or raise; the broadcast is dropped
\* before the ledger sees it ("drop"), delivered, or delivered with the
\* answer lost ("timeout").
EnvOf(bok, bal, fok, fee, sok, snd) ==
    [balance_ok |-> bok, balance |-> bal, fee_ok |-> fok, max_fee |-> fee,
     sign_ok |-> sok, send |-> snd]

EchoEnvs ==
    {EnvOf(FALSE, 0, FALSE, 1, FALSE, "drop")}
    \cup {EnvOf(TRUE, bal, FALSE, 1, FALSE, "drop") : bal \in BalanceChoices}
    \cup {EnvOf(TRUE, bal, TRUE, fee, FALSE, "drop") :
              bal \in BalanceChoices, fee \in MaxFeeChoices}
    \cup {EnvOf(TRUE, e[1], TRUE, e[2], TRUE, e[3]) :
              e \in BalanceChoices \X MaxFeeChoices \X {"drop", "deliver", "timeout"}}

\* the answers of EchoEnvs this run's faults allow
EchoAnswers ==
    {e \in EchoEnvs :
        /\ (~e.balance_ok \/ ~e.fee_ok) => "gateway" \in faults
        /\ (e.balance_ok /\ e.fee_ok /\ ~e.sign_ok) => "signer" \in faults
        /\ (e.sign_ok /\ e.send = "drop") => "gateway" \in faults
        /\ (e.sign_ok /\ e.send = "timeout") => "timeout" \in faults}

\* str(e) of the exception a failed HTTP request to the gateway or to the
\* signer raises (a refused connection, a timeout, an error status)
RequestError == "request failed"

\* the except branch setting the status without keeping the error's text
MarkFailed_status_only(rec, error_msg) ==
    [rec EXCEPT !.status = "failed"]

\* tasks.py 347-353
MarkFailed(rec, error_msg) ==
    [rec EXCEPT !.status = "failed", !.echo_value = error_msg]

\* the two tests of lines 290 and 301 in the other order
Decide_balance_first(received_value, balance, safe_gas_cost) ==
    IF balance < safe_gas_cost THEN "defer"
    ELSE IF received_value <= safe_gas_cost THEN "skip"
    ELSE "send"

\* tasks.py 290-303: what to do with a transfer of received_value: too small
\* to echo, no balance for the gas, or send
Decide(received_value, balance, safe_gas_cost) ==
    IF received_value <= safe_gas_cost THEN "skip"
    ELSE IF balance < safe_gas_cost THEN "defer"
    ELSE "send"

\* tasks.py 274-353: _echo_transfer(incoming_tx, nonce).  Gives the record
\* afterwards, the return value (handled), the outcome's name, whether
\* processed_count was incremented, the ledger's transactions afterwards,
\* which collaborator calls were made and what the broadcast was answered.
echo_transfer(rec, nonce, env, txs, n_mined) ==
    LET base == [rec |-> rec, handled |-> FALSE, outcome |-> "failed",
                 counted |-> FALSE, txs |-> txs, signed |-> FALSE, sent |-> FALSE,
                 safe_gas_cost |-> -1, answer |-> "none"]
    IN
    IF ~IsDecimal(rec.value)
    THEN [base EXCEPT !.rec = MarkFailed(rec, "invalid literal for int()")]
    ELSE IF ~env.balance_ok
    THEN [base EXCEPT !.rec = MarkFailed(rec, RequestError)]
    ELSE IF ~env.fee_ok
    THEN [base EXCEPT !.rec = MarkFailed(rec, RequestError)]
    ELSE
    LET received_value == int(rec.value)
        safe_gas_cost == SafeGasCost(env.max_fee)
        echo_value == Min(received_value, env.balance) - safe_gas_cost
        tx == [to |-> rec.from, value |-> echo_value, max_fee |-> env.max_fee,
               for |-> rec.incoming_hash]
        sub == LedgerSubmit(txs, n_mined, nonce, tx)
        b1 == [base EXCEPT !.safe_gas_cost = safe_gas_cost]
        todo == Decide(received_value, env.balance, safe_gas_cost)
    IN
    IF todo = "skip"
    THEN [b1 EXCEPT !.rec = [rec EXCEPT !.status = "skipped",
                                         !.echo_value = "Value less than gas cost",
                                         !.gas_fee = str(safe_gas_cost)],
                    !.handled = TRUE, !.outcome = "skipped"]
    ELSE IF todo = "defer"
    THEN [b1 EXCEPT !.outcome = "defer"]
    ELSE IF ~env.sign_ok
    THEN [b1 EXCEPT !.rec = MarkFailed(rec, RequestError), !.signed = TRUE]
    ELSE IF env.send = "drop"
    THEN [b1 EXCEPT !.rec = MarkFailed(rec, RequestError),
                    !.signed = TRUE, !.sent = TRUE, !.answer = "drop"]
    ELSE IF env.send = "timeout"
    THEN [b1 EXCEPT !.rec = MarkFailed(rec, RequestError),
                    !.signed = TRUE, !.sent = TRUE, !.txs = sub.txs,
                    !.answer = "timeout"]
    ELSE IF sub.result = "accepted"
    THEN [b1 EXCEPT !.rec = [rec EXCEPT !.status = "success",
                                         !.echo_hash = EchoHashOf(nonce, tx),
                                         !.echo_value = str(echo_value),
                                         !.gas_fee = str(safe_gas_cost)],
                    !.handled = TRUE, !.outcome = "success", !.counted = TRUE,
                    !.signed = TRUE, !.sent = TRUE, !.txs = sub.txs,
                    !.answer = sub.result]
    ELSE IF sub.result = "already known"
    THEN [b1 EXCEPT !.rec = [rec EXCEPT !.status = "success",
                                         !.echo_value = "Already submitted"],
                    !.handled = TRUE, !.outcome = "already known",
                    !.signed = TRUE, !.sent = TRUE, !.answer = sub.result]
    ELSE [b1 EXCEPT !.rec = MarkFailed(rec, sub.result),
                    !.signed = TRUE, !.sent = TRUE, !.answer = sub.result]

----------------------------------------------------------------------------
(* Observations.  They record what a step was given and did, for the      *)
(* properties below; the engine reads none of them.  A run keeps the ones *)
(* named in observe.                                                       *)

ObserveAll == {"attempt", "iteration", "terminal", "scan", "boot", "scanlog", "owed"}

\* the process has not started
NoBoot ==
    [from |-> "none", last_block |-> 0, pending_hashes |-> <<>>,
     first_scan |-> 0, first_attempt |-> None]

(* Faults.  A run names the collaborators that may fail in it: the ledger  *)
(* gateway (a query or a broadcast raises, a block is outside the history  *)
(* window), the signer, the store, and a broadcast whose answer is lost;    *)
(* "stale" lets the gateway report a height below the ledger's.            *)
(* Crashes and a low balance are possible in every run.                    *)

AllFaults == {"gateway", "signer", "store", "timeout"}

\* the answers "it worked" / "it raised" of a collaborator of this kind
Answers(kind) == IF kind \in faults THEN BOOLEAN ELSE {TRUE}

\* no block has been asked for
NoFetch == [block |-> 0, fetch |-> "none"]

\* last: the last fetch of this iteration; skipped: the blocks this process
\* jumped over after a history-limit answer (skipped_ever: any process);
\* asked_again: blocks asked for after they were jumped over; failed: blocks
\* whose last fetch failed with a transient error; highest: the highest block
\* any process has asked for or jumped to; scanned: the blocks this process
\* has fetched and gone through
NoScanLog ==
    [last |-> NoFetch, skipped |-> {}, skipped_ever |-> {}, asked_again |-> {},
     asked_again_ever |-> {}, failed |-> {}, highest |-> 0, scanned |-> {}]

\* the response before get_status has read anything
NoResponse ==
    [complete |-> FALSE, processed_count |-> -1, last_block |-> -1,
     persisted_block |-> -1, pending_count |-> -1]

\* no resolution attempt was the last step
NoAttempt ==
    [outcome |-> "none", hash |-> None, status_before |-> None,
     value |-> None, nonce |-> 0, nonce_after |-> 0, balance |-> 0, max_fee |-> 0,
     safe_gas_cost |-> -1, signed |-> FALSE, sent |-> FALSE,
     answer |-> "none", ledger_before |-> <<>>]

----------------------------------------------------------------------------
InitEngine ==
    /\ is_running = FALSE
    /\ last_block = 0
    /\ persisted_block = 0
    /\ processed_count = 0
    /\ history = <<>>
    /\ pending_hashes = <<>>
    /\ dirty = FALSE
    /\ save_due = TRUE
    /\ pc = "stopped"
    /\ current_block = 0
    /\ b = 0
    /\ current_nonce = -1
    /\ batch = <<>>
    /\ chain_txs = <<>>
    /\ mined = 0
    /\ attempt = NoAttempt
    /\ iter_start_block = 0
    /\ attempted = {}
    /\ ever_terminal = {}
    /\ dup_skipped = {}
    /\ boot = NoBoot
    /\ scanlog = NoScanLog
    /\ owed = {}
    /\ rd_pc = "idle"
    /\ response = NoResponse
    /\ history_response = <<>>
    /\ threads = 0

\* nothing has been stored
\* the ledger of FourTransfers before its first block
CrowdedLedger ==
    /\ ledger_blocks = FourTransfers
    /\ height = 0

EmptyStore ==
    /\ s3_state = NoBlob
    /\ s3_last_block = None
    /\ s3_echoes = <<>>

\* the ledger before its first block
FreshLedger ==
    /\ ledger_blocks = TwoTransfers
    /\ height = 0

\* A store written by the earlier layout (one blob per transfer under
\* "echoes/", and "last_block"), on a ledger that has block 1: one transfer
\* was detected, the other's echo had failed, and the block marker had not
\* been written past 0.
LegacyEcho(h, f, v, st, ev, ts) ==
    [incoming_hash |-> h, from |-> f, value |-> v, block_number |-> 1,
     status |-> st, echo_hash |-> None, echo_value |-> ev, gas_fee |-> None,
     timestamp |-> ts]

LegacyStore ==
    /\ s3_state = NoBlob
    /\ s3_last_block = "0"
    /\ s3_echoes = << LegacyEcho("0xa1", "0xAlice", "100000", "received",
                                 "Transfer detected", 10),
                      LegacyEcho("0xb2", "0xBob", "40000", "failed",
                                 RequestError, 20) >>

LedgerAtBlockOne ==
    /\ ledger_blocks = BothInBlockOne
    /\ height = 1

\* the store of the earlier layout holding one of the two transfers of
\* block 1
LegacyStoreOne ==
    /\ s3_state = NoBlob
    /\ s3_last_block = "0"
    /\ s3_echoes = << LegacyEcho("0xb2", "0xBob", "40000", "failed",
                                 RequestError, 20) >>

\* a blob of the earlier layout for a transfer of block bn
LegacyEchoAt(h, f, v, bn, st, ev, ts) ==
    [LegacyEcho(h, f, v, st, ev, ts) EXCEPT !.block_number = bn]

\* The store of the earlier layout as a process leaves it that died in the
\* middle of an echo: 0xa1 of block 1 was detected (timestamp 10), 0xb2 of
\* block 2 was detected (20), then the attempt for 0xa1 began and rewrote its
\* status and timestamp (30).  The block marker was last written at block 1.
LegacyStoreMidEcho ==
    /\ s3_state = NoBlob
    /\ s3_last_block = "1"
    /\ s3_echoes = << LegacyEchoAt("0xa1", "0xAlice", "100000", 1, "processing",
                                   "Preparing echo transaction...", 30),
                      LegacyEchoAt("0xb2", "0xBob", "40000", 2, "received",
                                   "Transfer detected", 20) >>

\* the ledger holding both blocks of TwoTransfers
LedgerAtBlockTwo ==
    /\ ledger_blocks = TwoTransfers
    /\ height = 2

----------------------------------------------------------------------------
(* Process start and death *)

\* tasks.py 35-58: start().  The store and the gateway answer or raise.  With
\* no consolidated snapshot the legacy path runs; an error in s3_get of the
\* legacy block or in get_latest_block escapes start() (is_running stays
\* set, no thread is launched); otherwise lines 57-58 launch the loop.
Start ==
    /\ pc = "stopped"
    /\ ~is_running
    /\ is_running' = TRUE
    /\ \E get_ok \in Answers("store"), legacy_ok \in Answers("store"),
          list_ok \in Answers("store"), put \in PutAnswers :
         LET ld == load_state(Mem, s3_state, get_ok)
             saved_block == s3_last_block
             m1 == IF saved_block # None
                   THEN [ld.m EXCEPT !.last_block = int(saved_block),
                                     !.persisted_block = int(saved_block)]
                   ELSE [ld.m EXCEPT !.last_block = height,
                                     !.persisted_block = height]
             m2 == recover_state_from_s3_legacy(m1, s3_echoes, list_ok)
             sv == save_state(m2, s3_state, FALSE, put)
         IN  /\ IF ld.ok
                THEN /\ SetMem(ld.m)
                     /\ pc' = "poll"
                     /\ UNCHANGED s3_state
                ELSE IF ~legacy_ok
                THEN /\ SetMem(ld.m)
                     /\ pc' = "start_failed"
                     /\ UNCHANGED s3_state
                ELSE /\ SetMem(sv.m)
                     /\ s3_state' = sv.blob
                     /\ pc' = "poll"
             /\ threads' = IF pc' = "poll" THEN threads + 1 ELSE threads
             /\ boot' = IF "boot" \notin observe \/ pc' # "poll" THEN NoBoot
                        ELSE IF ld.ok
                        THEN [NoBoot EXCEPT
                                !.from = "snapshot",
                                !.last_block = s3_state.last_block,
                                !.pending_hashes = s3_state.pending_hashes]
                        ELSE [NoBoot EXCEPT
                                !.from = "legacy",
                                !.last_block = last_block',
                                !.pending_hashes = pending_hashes']
    /\ iter_start_block' = IF "iteration" \in observe THEN last_block' ELSE 0
    /\ attempt' = NoAttempt
    /\ attempted' = {}
    /\ UNCHANGED <<current_block, b, current_nonce, batch, s3_last_block,
                   s3_echoes, ledger_vars, ever_terminal, dup_skipped, scanlog,
                   owed, rd_vars, observe, faults>>

\* The process dies at any point and is started anew: __init__ (tasks.py
\* 18-33) sets the fields; store and ledger keep what they hold.
Crash ==
    /\ pc # "stopped"
    /\ is_running' = FALSE
    /\ SetMem(InitMem)
    /\ pc' = "stopped"
    /\ current_block' = 0
    /\ b' = 0
    /\ current_nonce' = -1
    /\ batch' = <<>>
    /\ attempt' = NoAttempt
    /\ iter_start_block' = 0
    /\ attempted' = {}
    /\ boot' = NoBoot
    /\ scanlog' = [NoScanLog EXCEPT !.skipped_ever = scanlog.skipped_ever,
                                    !.asked_again_ever = scanlog.asked_again_ever,
                                    !.highest = scanlog.highest]
    /\ owed' = {}
    /\ rd_pc' = "idle"
    /\ response' = NoResponse
    /\ history_response' = <<>>
    /\ threads' = 0
    /\ UNCHANGED <<store_vars, ledger_vars, ever_terminal, dup_skipped, observe,
                   faults>>

----------------------------------------------------------------------------
(* The background loop, _run *)

\* tasks.py 184-189: the height query opens an iteration; when it raises,
\* line 222 catches
Poll ==
    /\ pc = "poll"
    /\ is_running
    /\ \E height_ok \in Answers("gateway") :
         IF ~height_ok
         THEN /\ pc' = "persist_exc"
              /\ UNCHANGED <<current_block, b>>
         ELSE \E reported \in ReportedHeights(height) :
              /\ current_block' = reported
              /\ IF reported > last_block
                 THEN pc' = "scan" /\ b' = last_block + 1
                 ELSE pc' = "clear" /\ b' = b
    /\ UNCHANGED <<mem_vars, current_nonce, batch, store_vars, ledger_vars,
                   obs_vars>>

\* the history-limit answer handled like any other block
LastBlockAfter_no_jump(bn, cur, fetch) == bn

\* last_block set one block short of the block just scanned
LastBlockAfter_one_short(bn, cur, fetch) ==
    IF fetch = "history_limit" THEN cur ELSE bn - 1

\* a block that could not be fetched is left for the next iteration
LastBlockAfter_retry(bn, cur, fetch) ==
    IF fetch = "history_limit" THEN cur
    ELSE IF fetch = "error" THEN bn - 1
    ELSE bn

\* tasks.py 193 and 206: last_block after the turn for block bn: bn itself,
\* or the current height when the block is outside the history window
LastBlockAfter(bn, cur, fetch) ==
    IF fetch = "history_limit" THEN cur ELSE bn

\* the log after block bn was asked for and the gateway answered fetch
LogFetch(log, bn, cur, fetch) ==
    LET over == IF fetch = "history_limit" THEN bn..cur ELSE {}
    IN  [last |-> [block |-> bn, fetch |-> fetch],
         skipped |-> log.skipped \cup over,
         skipped_ever |-> log.skipped_ever \cup over,
         asked_again |-> log.asked_again \cup ({bn} \cap log.skipped),
         asked_again_ever |-> log.asked_again_ever \cup ({bn} \cap log.skipped_ever),
         failed |-> IF fetch = "error" THEN log.failed \cup {bn}
                    ELSE log.failed \ {bn},
         highest |-> Max(log.highest, IF fetch = "history_limit" THEN cur ELSE bn),
         scanned |-> IF fetch = "ok" THEN log.scanned \cup {bn} ELSE log.scanned]

\* the loop marking the state dirty only for blocks with transfers
DirtyAfterBlock_found_only(was_dirty, found_count, bn, persisted) ==
    was_dirty \/ found_count > 0

\* tasks.py 194-199: _dirty after block bn was scanned with found_count new
\* transfers: set when a transfer was found, or when the scan is
\* _block_checkpoint_interval blocks ahead of the last save
DirtyAfterBlock(was_dirty, found_count, bn, persisted) ==
    \/ was_dirty
    \/ found_count > 0
    \/ (bn - persisted) >= block_checkpoint_interval

\* tasks.py 190-208: one turn of the for loop over blocks, with
\* _process_block(b).  The gateway returns the block, fails transiently, or
\* says the block is outside its history window.
ScanBlock ==
    /\ pc = "scan"
    /\ \E fetch \in FetchAnswers :
         /\ scanlog' = IF "scanlog" \in observe
                        THEN LogFetch(scanlog, b, current_block, fetch)
                        ELSE scanlog
         /\ IF fetch = "history_limit"
            THEN /\ last_block' = LastBlockAfter(b, current_block, fetch)
                 /\ dirty' = TRUE
                 /\ pc' = "clear"
                 /\ b' = 0
                 /\ UNCHANGED <<history, pending_hashes, dup_skipped>>
            ELSE LET r == process_block(history, pending_hashes, b, fetch)
                 IN  /\ history' = r.history
                     /\ pending_hashes' = r.pending_hashes
                     /\ last_block' = LastBlockAfter(b, current_block, fetch)
                     /\ dirty' = DirtyAfterBlock(dirty, r.found_count, b,
                                                 persisted_block)
                     /\ dup_skipped' = IF "scan" \in observe
                                        THEN dup_skipped \cup r.dups ELSE dup_skipped
                     /\ IF b < current_block
                        THEN pc' = "scan" /\ b' = b + 1
                        ELSE pc' = "clear" /\ b' = 0
    /\ boot' = IF "boot" \in observe /\ boot.first_scan = 0
               THEN [boot EXCEPT !.first_scan = b] ELSE boot
    /\ attempt' = NoAttempt
    /\ UNCHANGED <<is_running, persisted_block, processed_count, save_due,
                   current_block, current_nonce, batch, store_vars, ledger_vars,
                   iter_start_block, attempted, ever_terminal, owed, rd_vars,
                   run_vars>>

\* tasks.py 211-212 and 146-155: with nothing pending the loop goes on to
\* persist; otherwise _clear_pending fetches the batch nonce, and returns
\* False when that raises
BeginClear ==
    /\ pc = "clear"
    /\ IF pending_hashes = <<>>
       THEN /\ pc' = "persist"
            /\ UNCHANGED <<current_nonce, batch>>
       ELSE \E nonce_ok \in Answers("gateway") :
              IF nonce_ok
              THEN /\ current_nonce' = mined
                   /\ batch' = pending_hashes
                   /\ pc' = "resolve"
              ELSE /\ pc' = "persist_fail"
                   /\ UNCHANGED <<current_nonce, batch>>
    /\ attempt' = NoAttempt
    /\ UNCHANGED <<mem_vars, current_block, b, store_vars, ledger_vars,
                   iter_start_block, attempted, ever_terminal, dup_skipped,
                   boot, scanlog, owed, rd_vars, run_vars>>

IndexOf(hist, h) == CHOOSE i \in 1..Len(hist) :
    /\ hist[i].incoming_hash = h
    /\ \A j \in 1..(i - 1) : hist[j].incoming_hash # h

\* tasks.py 165-169: the record is put in "processing" before the attempt
MarkProcessing(rec) ==
    [rec EXCEPT !.status = "processing",
                !.echo_value = "Preparing echo transaction..."]

\* _clear_pending taking a hash out of pending_hashes only when the echo
\* was counted in processed_count
AfterAttempt_only_counted(pend, tx_hash, nonce, r) ==
    IF r.handled
    THEN [pending_hashes |-> IF r.counted \/ r.rec.status = "skipped"
                             THEN ListRemove(pend, tx_hash) ELSE pend,
          nonce |-> IF r.rec.status = "success" THEN nonce + 1 ELSE nonce,
          keep_going |-> TRUE]
    ELSE [pending_hashes |-> pend, nonce |-> nonce, keep_going |-> FALSE]

\* _clear_pending advancing the nonce for every record it takes out of
\* pending_hashes
AfterAttempt_always_advance(pend, tx_hash, nonce, r) ==
    IF r.handled
    THEN [pending_hashes |-> ListRemove(pend, tx_hash),
          nonce |-> nonce + 1,
          keep_going |-> TRUE]
    ELSE [pending_hashes |-> pend, nonce |-> nonce, keep_going |-> FALSE]

\* _clear_pending going on to the next record after one that was not handled
AfterAttempt_continue(pend, tx_hash, nonce, r) ==
    IF r.handled
    THEN [pending_hashes |-> ListRemove(pend, tx_hash),
          nonce |-> IF r.rec.status = "success" THEN nonce + 1 ELSE nonce,
          keep_going |-> TRUE]
    ELSE [pending_hashes |-> pend, nonce |-> nonce, keep_going |-> TRUE]

\* _clear_pending ending the batch after every record
AfterAttempt_one_per_batch(pend, tx_hash, nonce, r) ==
    IF r.handled
    THEN [pending_hashes |-> ListRemove(pend, tx_hash),
          nonce |-> IF r.rec.status = "success" THEN nonce + 1 ELSE nonce,
          keep_going |-> FALSE]
    ELSE [pending_hashes |-> pend, nonce |-> nonce, keep_going |-> FALSE]

\* _clear_pending taking a hash out of pending_hashes only when its record
\* ended success, so that a skipped record is attempted again
AfterAttempt_success_only(pend, tx_hash, nonce, r) ==
    IF r.handled
    THEN [pending_hashes |-> IF r.rec.status = "success"
                             THEN ListRemove(pend, tx_hash) ELSE pend,
          nonce |-> IF r.rec.status = "success" THEN nonce + 1 ELSE nonce,
          keep_going |-> TRUE]
    ELSE [pending_hashes |-> pend, nonce |-> nonce, keep_going |-> FALSE]

\* tasks.py 173-180: what _clear_pending does with _echo_transfer's return
\* value: on True the hash leaves pending_hashes and the loop goes on
\* (keep_going), on False the batch ends
AfterAttempt(pend, tx_hash, nonce, r) ==
    IF r.handled
    THEN [pending_hashes |-> ListRemove(pend, tx_hash),
          nonce |-> IF r.rec.status = "success" THEN nonce + 1 ELSE nonce,
          keep_going |-> TRUE]
    ELSE [pending_hashes |-> pend, nonce |-> nonce, keep_going |-> FALSE]

\* tasks.py 157-181: one turn of the for loop of _clear_pending, with the
\* call of _echo_transfer
Resolve ==
    /\ pc = "resolve"
    /\ batch # <<>>
    /\ LET tx_hash == Head(batch)
           rest == Tail(batch)
       IN  IF ~InHistory(history, tx_hash)
           THEN /\ pending_hashes' = ListRemove(pending_hashes, tx_hash)
                /\ dirty' = TRUE
                /\ batch' = rest
                /\ pc' = IF rest = <<>> THEN "persist" ELSE "resolve"
                /\ attempt' = IF "attempt" \notin observe THEN NoAttempt
                               ELSE [NoAttempt EXCEPT !.outcome = "not found",
                                                      !.hash = tx_hash]
                /\ UNCHANGED <<history, processed_count, current_nonce,
                               chain_txs, attempted, ever_terminal, boot>>
           ELSE \E env \in EchoAnswers :
                LET i == IndexOf(history, tx_hash)
                    r == echo_transfer(MarkProcessing(history[i]), current_nonce,
                                       env, chain_txs, mined)
                    a == AfterAttempt(pending_hashes, tx_hash, current_nonce, r)
                IN  /\ Len(r.txs) <= MaxLedgerTxs
                    /\ history' = [history EXCEPT ![i] = r.rec]
                    /\ processed_count' =
                           IF r.counted THEN processed_count + 1 ELSE processed_count
                    /\ dirty' = TRUE
                    /\ chain_txs' = r.txs
                    /\ pending_hashes' = a.pending_hashes
                    /\ current_nonce' = a.nonce
                    /\ batch' = IF a.keep_going THEN rest ELSE <<>>
                    /\ pc' = IF ~a.keep_going THEN "persist_fail"
                             ELSE IF rest = <<>> THEN "persist" ELSE "resolve"
                    /\ attempted' = IF "iteration" \in observe
                                    THEN attempted \cup {tx_hash} ELSE attempted
                    /\ ever_terminal' =
                           IF /\ "terminal" \in observe
                              /\ r.rec.status \in {"success", "skipped"}
                           THEN ever_terminal \cup {tx_hash} ELSE ever_terminal
                    /\ boot' = IF "boot" \in observe /\ boot.first_attempt = None
                               THEN [boot EXCEPT !.first_attempt = tx_hash]
                               ELSE boot
                    /\ attempt' =
                           IF "attempt" \notin observe THEN NoAttempt ELSE
                           [outcome |-> r.outcome, hash |-> tx_hash,
                            status_before |-> history[i].status,
                            value |-> history[i].value,
                            nonce |-> current_nonce, nonce_after |-> a.nonce,
                            balance |-> IF env.balance_ok THEN env.balance ELSE -1,
                            max_fee |-> IF env.fee_ok THEN env.max_fee ELSE -1,
                            safe_gas_cost |-> r.safe_gas_cost,
                            signed |-> r.signed, sent |-> r.sent,
                            answer |-> r.answer, ledger_before |-> chain_txs]
    /\ UNCHANGED <<is_running, last_block, persisted_block, save_due,
                   current_block, b, store_vars, ledger_blocks, height, mined,
                   iter_start_block, dup_skipped, scanlog, owed, rd_vars,
                   run_vars>>

\* the hashes that come after h in the list
Behind(pend, h) ==
    {pend[k] : k \in {n \in 1..Len(pend) : \E j \in 1..(n - 1) : pend[j] = h}}

\* _save_state without its try/except: an error of s3_put escapes _run and
\* ends the thread
Persist_unguarded ==
    /\ pc \in {"persist", "persist_fail", "persist_exc"}
    /\ \E put \in PutAnswers :
         LET r == persist_if_dirty(Mem, s3_state, put)
         IN  /\ SetMem(r.m)
             /\ s3_state' = r.blob
             /\ pc' = IF put = "raise" /\ dirty /\ save_due THEN "dead" ELSE "poll"
    /\ current_block' = 0
    /\ current_nonce' = -1
    /\ batch' = <<>>
    /\ attempt' = NoAttempt
    /\ iter_start_block' = IF "iteration" \in observe THEN last_block' ELSE 0
    /\ attempted' = {}
    /\ scanlog' = [scanlog EXCEPT !.last = NoFetch]
    /\ owed' = {}
    /\ UNCHANGED <<is_running, b, s3_last_block, s3_echoes, ledger_vars,
                   ever_terminal, dup_skipped, boot, rd_vars, run_vars>>

\* tasks.py 214-216, 219-221, 224-225: _persist_if_dirty, then the sleep that
\* ends the iteration
Persist ==
    /\ pc \in {"persist", "persist_fail", "persist_exc"}
    /\ \E put \in PutAnswers :
         LET r == persist_if_dirty(Mem, s3_state, put)
         IN  /\ SetMem(r.m)
             /\ s3_state' = r.blob
    /\ pc' = "poll"
    /\ current_block' = 0
    /\ current_nonce' = -1
    /\ batch' = <<>>
    /\ attempt' = NoAttempt
    /\ iter_start_block' = IF "iteration" \in observe THEN last_block' ELSE 0
    /\ attempted' = {}
    /\ scanlog' = [scanlog EXCEPT !.last = NoFetch]
    /\ owed' = IF "owed" \in observe /\ attempt.outcome = "defer"
               THEN Behind(pending_hashes, attempt.hash) ELSE {}
    /\ UNCHANGED <<is_running, b, s3_last_block, s3_echoes, ledger_vars,
                   ever_terminal, dup_skipped, boot, rd_vars, run_vars>>

----------------------------------------------------------------------------
(* The environment.  Each step is taken where the engine can next see it:  *)
(* the height is read by Poll and start(), the mined count by get_nonce and *)
(* the broadcast, the clock by _persist_if_dirty.                           *)

\* the ledger grows by a block
NewBlock ==
    /\ pc \in {"stopped", "poll"}
    /\ height < MaxHeight
    /\ height' = height + 1
    /\ UNCHANGED <<mem_vars, loop_vars, store_vars, ledger_blocks, chain_txs, mined,
                   obs_vars>>

\* the oldest transaction waiting in the pool is included in a block
Confirm ==
    /\ pc \in {"clear", "resolve"}
    /\ mined < Len(chain_txs)
    /\ mined' = mined + 1
    /\ UNCHANGED <<mem_vars, loop_vars, store_vars, ledger_blocks, height, chain_txs,
                   obs_vars>>

\* more than _save_interval seconds have passed since the last save
Tick ==
    /\ pc \in {"persist", "persist_fail", "persist_exc"}
    /\ ~save_due
    /\ save_due' = TRUE
    /\ UNCHANGED <<is_running, last_block, persisted_block, processed_count,
                   history, pending_hashes, dirty, loop_vars, store_vars,
                   ledger_vars, obs_vars>>

Next ==
    \/ Start
    \/ Crash
    \/ Poll
    \/ ScanBlock
    \/ BeginClear
    \/ Resolve
    \/ Persist
    \/ NewBlock
    \/ Confirm
    \/ Tick

----------------------------------------------------------------------------
(* The status and history endpoints, served by the event loop's thread     *)
(* while the background thread runs (app.py 67-82).  The interpreter can   *)
(* switch threads between any two attribute reads of get_status.           *)

\* app.py 67-78: get_status, one read per step: the balance query (69), then
\* the fields in the order the response dict names them (73-76)
GetStatus ==
    /\ pc # "stopped"
    /\ \/ /\ rd_pc = "idle"
          /\ rd_pc' = "73"
          /\ response' = NoResponse
       \/ /\ rd_pc = "73"
          /\ rd_pc' = "74"
          /\ response' = [response EXCEPT !.processed_count = processed_count]
       \/ /\ rd_pc = "74"
          /\ rd_pc' = "75"
          /\ response' = [response EXCEPT !.last_block = last_block]
       \/ /\ rd_pc = "75"
          /\ rd_pc' = "76"
          /\ response' = [response EXCEPT !.persisted_block = persisted_block]
       \/ /\ rd_pc = "76"
          /\ rd_pc' = "idle"
          /\ response' = [response EXCEPT !.pending_count = Len(pending_hashes),
                                          !.complete = TRUE]
    /\ UNCHANGED <<mem_vars, loop_vars, store_vars, ledger_vars, attempt,
                   iter_start_block, attempted, ever_terminal, dup_skipped,
                   boot, scanlog, owed, history_response, run_vars>>

\* get_history cutting self.history down to its newest record in place
GetHistory_truncating ==
    /\ pc # "stopped"
    /\ rd_pc = "idle"
    /\ history_response' = FirstN(history, 1)
    /\ history' = FirstN(history, 1)
    /\ UNCHANGED <<is_running, last_block, persisted_block, processed_count,
                   pending_hashes, dirty, save_due, loop_vars, store_vars,
                   ledger_vars, attempt, iter_start_block, attempted,
                   ever_terminal, dup_skipped, boot, scanlog, owed, rd_pc,
                   response, run_vars>>

\* app.py 80-82: get_history returns self.history
GetHistory ==
    /\ pc # "stopped"
    /\ rd_pc = "idle"
    /\ history_response' = history
    /\ UNCHANGED <<mem_vars, loop_vars, store_vars, ledger_vars, attempt,
                   iter_start_block, attempted, ever_terminal, dup_skipped,
                   boot, scanlog, owed, rd_pc, response, run_vars>>

\* the engine on a ledger that has stopped growing
NextSettled ==
    \/ Start
    \/ Crash
    \/ Poll
    \/ ScanBlock
    \/ BeginClear
    \/ Resolve
    \/ Persist
    \/ Confirm
    \/ Tick

\* one process run: the engine without a crash
NextRun ==
    \/ Start
    \/ Poll
    \/ ScanBlock
    \/ BeginClear
    \/ Resolve
    \/ Persist
    \/ NewBlock
    \/ Confirm
    \/ Tick

\* app.py 36-38: the application shuts down and clears the flag; the
\* background thread is not joined
Shutdown ==
    /\ is_running
    /\ is_running' = FALSE
    /\ UNCHANGED <<last_block, persisted_block, processed_count, history,
                   pending_hashes, dirty, save_due, loop_vars, store_vars,
                   ledger_vars, obs_vars>>

\* tasks.py 184: a loop that finds the flag cleared at the head of its
\* iteration ends.  pc follows the oldest loop alive; a younger one waits at
\* the loop's head until it is the oldest.
LoopExit ==
    /\ pc = "poll"
    /\ ~is_running
    /\ threads >= 1
    /\ threads' = threads - 1
    /\ pc' = IF threads' = 0 THEN "stopped" ELSE "poll"
    /\ UNCHANGED <<mem_vars, current_block, b, current_nonce, batch, store_vars,
                   ledger_vars, attempt, iter_start_block, attempted,
                   ever_terminal, dup_skipped, boot, scanlog, owed, rd_vars,
                   observe, faults>>

\* tasks.py 35-58: start() called after a shutdown while the loop launched
\* before has not yet come back to line 184: the guard of line 36 passes,
\* the flag is set, the state is loaded anew and a thread is launched; the
\* earlier loop finds the flag set at its next test and goes on
StartAgain ==
    /\ pc \notin {"stopped", "start_failed"}
    /\ ~is_running
    /\ threads = 1
    /\ is_running' = TRUE
    /\ \E get_ok \in Answers("store"), legacy_ok \in Answers("store"),
          list_ok \in Answers("store"), put \in PutAnswers :
         LET ld == load_state(Mem, s3_state, get_ok)
             saved_block == s3_last_block
             m1 == IF saved_block # None
                   THEN [ld.m EXCEPT !.last_block = int(saved_block),
                                     !.persisted_block = int(saved_block)]
                   ELSE [ld.m EXCEPT !.last_block = height,
                                     !.persisted_block = height]
             m2 == recover_state_from_s3_legacy(m1, s3_echoes, list_ok)
             sv == save_state(m2, s3_state, FALSE, put)
         IN  IF ld.ok
             THEN /\ SetMem(ld.m)
                  /\ threads' = threads + 1
                  /\ UNCHANGED s3_state
             ELSE IF ~legacy_ok
             THEN /\ SetMem(ld.m)
                  /\ UNCHANGED <<threads, s3_state>>
             ELSE /\ SetMem(sv.m)
                  /\ s3_state' = sv.blob
                  /\ threads' = threads + 1
    /\ UNCHANGED <<loop_vars, s3_last_block, s3_echoes, ledger_vars, attempt,
                   iter_start_block, attempted, ever_terminal, dup_skipped,
                   boot, scanlog, owed, rd_vars, observe, faults>>

\* one process in which the application starts the engine, shuts it down
\* and starts it again
NextLifecycle ==
    \/ NextRun
    \/ Shutdown
    \/ LoopExit
    \/ StartAgain

\* the engine with the endpoints being called
NextServing ==
    \/ Next
    \/ GetStatus
    \/ GetHistory

----------------------------------------------------------------------------
\* a first start on an empty store, with every fault possible
Init ==
    /\ InitEngine
    /\ EmptyStore
    /\ FreshLedger
    /\ observe = {"attempt", "iteration"}
    /\ faults = AllFaults

Spec == Init /\ [][Next]_vars

\* the same start where only the signer can fail: what crashes alone do
InitCrash ==
    /\ InitEngine
    /\ EmptyStore
    /\ FreshLedger
    /\ observe = {"attempt", "iteration", "terminal"}
    /\ faults = {"signer"}

SpecCrash == InitCrash /\ [][Next]_vars

\* a first start of this version on a store the earlier layout wrote; the
\* gateway can fail
InitLegacy ==
    /\ InitEngine
    /\ LegacyStore
    /\ LedgerAtBlockOne
    /\ observe = {"attempt", "iteration", "scan"}
    /\ faults = {"gateway"}

SpecLegacy == InitLegacy /\ [][Next]_vars

\* the first start, observed for what each later start does first
InitRestart ==
    /\ InitEngine
    /\ EmptyStore
    /\ FreshLedger
    /\ observe = {"boot"}
    /\ faults = AllFaults

SpecRestart == InitRestart /\ [][Next]_vars

\* the first start where only the gateway can fail, observed for the block
\* fetches
InitGateway ==
    /\ InitEngine
    /\ EmptyStore
    /\ FreshLedger
    /\ observe = {"scanlog"}
    /\ faults = {"gateway"}

SpecGateway == InitGateway /\ [][Next]_vars

\* the same start where the gateway can also report a height below the
\* ledger's
InitStale ==
    /\ InitEngine
    /\ EmptyStore
    /\ FreshLedger
    /\ observe = {"scanlog"}
    /\ faults = {"gateway", "stale"}

SpecStale == InitStale /\ [][Next]_vars

\* a first start on an empty store, where the gateway and the store can
\* fail, or on the legacy store, where the store can fail, observed for the
\* block fetches
InitBlocks ==
    /\ InitEngine
    /\ \/ EmptyStore /\ FreshLedger /\ faults = {"gateway", "store"}
       \/ LegacyStore /\ LedgerAtBlockOne /\ faults = {"store"}
    /\ observe = {"scanlog"}

SpecBlocks == InitBlocks /\ [][Next]_vars

\* a first start on the legacy store with two pending records and no
\* collaborator failing, observed for the batches
InitBatch ==
    /\ InitEngine
    /\ LegacyStore
    /\ LedgerAtBlockOne
    /\ observe = {"attempt", "iteration", "owed"}
    /\ faults = {}

SpecBatch == InitBatch /\ [][Next]_vars

\* the first start with no collaborator failing, and the endpoints called
InitServing ==
    /\ InitEngine
    /\ EmptyStore
    /\ FreshLedger
    /\ observe = {}
    /\ faults = {}

SpecServing == InitServing /\ [][NextServing]_vars

\* one process run from the first start on the ledger of FourTransfers, no
\* collaborator failing
InitRun ==
    /\ InitEngine
    /\ EmptyStore
    /\ CrowdedLedger
    /\ observe = {"attempt", "boot", "terminal"}
    /\ faults = {}

SpecRun == InitRun /\ [][NextRun]_vars

\* a first start on an empty store, no collaborator failing, with shutdowns
\* and further starts
InitLifecycle ==
    /\ InitEngine
    /\ EmptyStore
    /\ FreshLedger
    /\ observe = {}
    /\ faults = {}

SpecLifecycle == InitLifecycle /\ [][NextLifecycle]_vars

\* One process run from the first start where the signer can fail, with the
\* background thread scheduled as in SpecLive.
InitStarve ==
    /\ InitEngine
    /\ EmptyStore
    /\ FreshLedger
    /\ observe = {"attempt"}
    /\ faults = {"signer"}

SpecStarve ==
    /\ InitStarve
    /\ [][NextRun]_vars
    /\ WF_vars(Poll)
    /\ WF_vars(ScanBlock)
    /\ WF_vars(BeginClear)
    /\ WF_vars(Resolve)
    /\ WF_vars(Persist)

\* a first start on the legacy store that knows one transfer of block 1 and
\* not the other, no collaborator failing
InitRescan ==
    /\ InitEngine
    /\ LegacyStoreOne
    /\ LedgerAtBlockOne
    /\ observe = {}
    /\ faults = {}

SpecRescan == InitRescan /\ [][Next]_vars

\* the first start on a ledger with more transfers than history holds, no
\* collaborator failing
InitCrowded ==
    /\ InitEngine
    /\ EmptyStore
    /\ CrowdedLedger
    /\ observe = {"attempt"}
    /\ faults = {}

SpecCrowded == InitCrowded /\ [][Next]_vars

\* a first start of this version on the store an interrupted echo left, the
\* ledger standing at block 2 and the store able to fail
InitMigration ==
    /\ InitEngine
    /\ LegacyStoreMidEcho
    /\ LedgerAtBlockTwo
    /\ observe = {"attempt"}
    /\ faults = {"store"}

SpecMigration == InitMigration /\ [][NextSettled]_vars

\* The first start with every fault possible, and the background thread
\* scheduled: every call to a collaborator returns or raises within its
\* timeout and every sleep ends, so a step of the loop that can be taken is
\* taken.  Nothing is assumed of the environment or of crashes and restarts.
InitLive ==
    /\ InitEngine
    /\ EmptyStore
    /\ FreshLedger
    /\ observe = {}
    /\ faults = AllFaults

SpecLive ==
    /\ InitLive
    /\ [][Next]_vars
    /\ WF_vars(Poll)
    /\ WF_vars(ScanBlock)
    /\ WF_vars(BeginClear)
    /\ WF_vars(Resolve)
    /\ WF_vars(Persist)

----------------------------------------------------------------------------
(* Properties *)

NoDuplicateHash(hist) ==
    \A i, j \in 1..Len(hist) :
        hist[i].incoming_hash = hist[j].incoming_hash => i = j

\* the record of a hash that is in history
RecordFor(h) == history[IndexOf(history, h)]

IterationEnd == pc \in {"persist", "persist_fail", "persist_exc"}

\* C1: for every incoming transfer the ledger has accepted at most one echo
\* transaction, whatever crashes and restarts the run contains.
\* (chain_txs[i].for is the incoming hash the i-th accepted transaction echoes.)
C1_AtMostOneEcho ==
    \A i, j \in 1..Len(chain_txs) :
        chain_txs[i].for = chain_txs[j].for => i = j

\* C2: no two records of history share an incoming_hash, in memory and in the
\* stored snapshot, also after a block has been scanned a second time.
C2_NoDuplicateRecord ==
    /\ NoDuplicateHash(history)
    /\ ~s3_state.absent => NoDuplicateHash(s3_state.history)

\* a block was scanned again and a transfer already recorded was met in it
C2_BlockScannedAgain ==
    /\ dup_skipped # {}
    /\ \A h \in dup_skipped : InHistory(history, h)
    /\ Len(history) >= Cardinality(dup_skipped)

\* C3: every success record has echo_value + gas_fee <= value, with equality
\* when the balance at resolution was at least the value.
C3_SuccessWithinValue ==
    \A i \in 1..Len(history) :
        LET rec == history[i] IN
        rec.status = "success" =>
            /\ IsDecimal(rec.echo_value)
            /\ IsDecimal(rec.gas_fee)
            /\ int(rec.echo_value) + int(rec.gas_fee) <= int(rec.value)
            /\ (/\ attempt.hash = rec.incoming_hash
                /\ attempt.outcome \in {"success", "already known"}
                /\ attempt.balance >= int(rec.value))
               => int(rec.echo_value) + int(rec.gas_fee) = int(rec.value)

\* C4: a hash whose record has been success or skipped is never in
\* pending_hashes again, in this process or in a later one.
C4_TerminalStaysOut ==
    \A h \in ever_terminal :
        \A i \in 1..Len(pending_hashes) : pending_hashes[i] # h

C6_RestartResumes ==
    boot.from = "snapshot" =>
        /\ boot.first_scan \in {0, boot.last_block + 1}
        /\ boot.first_scan = 0 => last_block = boot.last_block
        /\ last_block >= boot.last_block
        /\ boot.pending_hashes # <<>> =>
              /\ boot.first_attempt \in {None, Head(boot.pending_hashes)}
              /\ (pc \in {"persist", "persist_fail"} /\ current_nonce >= 0)
                    => boot.first_attempt = Head(boot.pending_hashes)
        /\ \A k \in 1..Len(boot.pending_hashes) :
              LET h == boot.pending_hashes[k] IN
              /\ InHistory(history, h)
              /\ \/ h \in Range(pending_hashes)
                 \/ RecordFor(h).status \in {"success", "skipped"}
        /\ NoDuplicateHash(history)

\* a restart from a snapshot with a pending hash and a block marker of at
\* least 1 has scanned the next block and attempted that hash
C6_RestartedAndRetried ==
    /\ boot.from = "snapshot"
    /\ boot.last_block >= 1
    /\ boot.pending_hashes # <<>>
    /\ boot.first_scan = boot.last_block + 1
    /\ boot.first_attempt = Head(boot.pending_hashes)

\* the batch of this iteration has ended with a record whose signer call
\* failed, after another record's echo was accepted in the same batch
C7_SecondSignerFailed ==
    /\ pc = "persist_fail"
    /\ attempt.outcome = "failed"
    /\ attempt.signed
    /\ ~attempt.sent
    /\ \E h \in attempted \ {attempt.hash} :
          /\ InHistory(history, h)
          /\ RecordFor(h).status = "success"
          /\ h \notin Range(pending_hashes)

\* C7: when the iteration of such a batch ends, the stored snapshot holds the
\* first record as success and not pending.
C7_FirstSuccessDurable ==
    [][(C7_SecondSignerFailed /\ pc' = "poll") =>
          /\ ~s3_state'.absent
          /\ \A h \in attempted \ {attempt.hash} :
                (InHistory(history, h) /\ RecordFor(h).status = "success") =>
                    /\ \E i \in 1..Len(s3_state'.history) :
                          /\ s3_state'.history[i].incoming_hash = h
                          /\ s3_state'.history[i].status = "success"
                    /\ h \notin Range(s3_state'.pending_hashes)]_vars

\* C8: an attempt for a record whose value is at most the safe gas cost
\* leaves it skipped with gas_fee = safe gas cost, whatever the balance;
\* the signer and the gateway's broadcast are not called, the ledger holds
\* what it held, the hash has left pending_hashes and the batch nonce is
\* the one before.
C8_SmallValueSkipped ==
    (/\ attempt.outcome \notin {"none", "not found"}
     /\ attempt.balance >= 0
     /\ attempt.max_fee >= 0
     /\ IsDecimal(attempt.value)
     /\ int(attempt.value) <= SafeGasCost(attempt.max_fee))
    => /\ InHistory(history, attempt.hash)
       /\ RecordFor(attempt.hash).status = "skipped"
       /\ RecordFor(attempt.hash).gas_fee = str(SafeGasCost(attempt.max_fee))
       /\ ~attempt.signed
       /\ ~attempt.sent
       /\ chain_txs = attempt.ledger_before
       /\ attempt.hash \notin Range(pending_hashes)
       /\ attempt.nonce_after = attempt.nonce

\* a record was skipped, once with a balance that covers the gas and once
\* with one that does not
C8_SkippedWithAndWithoutBalance ==
    /\ attempt.outcome = "skipped"
    /\ RecordFor(attempt.hash).status = "skipped"
    /\ attempt.balance >= SafeGasCost(attempt.max_fee)
    /\ \E bal \in BalanceChoices : bal < SafeGasCost(attempt.max_fee)

\* C9: a deferred attempt (value above the safe gas cost, balance below it)
\* leaves the record's status as it was before the attempt, the hash
\* pending, and calls neither signer nor broadcast.
C9_DeferKeepsStatus ==
    (/\ attempt.outcome \notin {"none", "not found"}
     /\ attempt.balance >= 0
     /\ attempt.max_fee >= 0
     /\ IsDecimal(attempt.value)
     /\ int(attempt.value) > SafeGasCost(attempt.max_fee)
     /\ attempt.balance < SafeGasCost(attempt.max_fee))
    => /\ attempt.outcome = "defer"
       /\ RecordFor(attempt.hash).status = attempt.status_before
       /\ attempt.hash \in Range(pending_hashes)
       /\ ~attempt.signed
       /\ ~attempt.sent

\* C10: once an iteration's blocks are scanned (the height query was
\* answered), last_block is the height read at its start, through the
\* resolutions and to the iteration's end, whatever their outcomes.
C10_ScanReachesHeight ==
    pc \in {"clear", "resolve", "persist", "persist_fail"} =>
        last_block = current_block

\* an iteration has moved last_block forward and ended its batch on a record
\* that stays pending, failed or deferred
C10_AdvancedDespiteStuck ==
    /\ pc = "persist_fail"
    /\ last_block > iter_start_block
    /\ last_block = current_block
    /\ attempt.outcome \in {"failed", "defer"}
    /\ attempt.hash \in Range(pending_hashes)

\* C11 as stated: no block jumped over after a history-limit answer is ever
\* asked for again, by this process or a later one.
C11_NeverAskedAgain ==
    scanlog.asked_again_ever = {}

\* C11 amended: when the gateway answers that block b is outside its history
\* window, the scan of this iteration ends with last_block at the height read
\* for the iteration and the state dirty, and this process never asks for b
\* or another block up to that height again.
C11_JumpOverHistoryLimit ==
    /\ scanlog.asked_again = {}
    /\ scanlog.last.fetch = "history_limit" =>
          /\ pc \in {"clear", "resolve", "persist", "persist_fail"}
          /\ last_block = current_block
          /\ dirty
          /\ \A blk \in scanlog.last.block..current_block : blk \in scanlog.skipped

\* the gateway refused a block below the height and the scan has ended
C11_JumpedOverRange ==
    /\ scanlog.last.fetch = "history_limit"
    /\ scanlog.last.block < current_block
    /\ pc = "clear"
    /\ last_block = current_block

\* C12: whatever call fails in an iteration, the loop stays alive: while
\* is_running holds, a running iteration comes to its end (the sleep), and
\* after the sleep another iteration begins with the height query.
C12_LoopGoesOn ==
    /\ (is_running /\ pc \in {"scan", "clear", "resolve", "persist",
                              "persist_fail", "persist_exc"})
          ~> (pc = "poll" \/ ~is_running)
    /\ (is_running /\ pc = "poll")
          ~> (pc \in {"scan", "clear", "persist_exc"} \/ ~is_running)

\* an iteration in which an echo failed has ended and the loop is about to
\* begin the next one
C12_AliveAfterFailure ==
    /\ is_running
    /\ pc = "poll"
    /\ \E i \in 1..Len(history) : history[i].status = "failed"

\* C13: after a start that found no consolidated snapshot and went through
\* the legacy reconstruction, the store holds a consolidated snapshot before
\* the loop runs, so that the next start loads it.
C13_SnapshotAfterLegacyStart ==
    [][(pc = "stopped" /\ s3_state.absent /\ pc' = "poll")
          => (~s3_state'.absent
              /\ s3_state'.pending_hashes = pending_hashes'
              /\ s3_state'.history = history')]_vars

\* C14: when the gateway answers a broadcast with "already known", the
\* record is success, not failed, its hash has left pending_hashes and the
\* rest of the batch, and the ledger holds what it held.
C14_AlreadyKnownIsSuccess ==
    attempt.answer = "already known" =>
        /\ InHistory(history, attempt.hash)
        /\ RecordFor(attempt.hash).status = "success"
        /\ attempt.hash \notin Range(pending_hashes)
        /\ attempt.hash \notin Range(batch)
        /\ chain_txs = attempt.ledger_before

\* a broadcast was answered "already known" for a record that was not yet
\* success, while the ledger held its echo
C14_RebroadcastNormalised ==
    /\ attempt.answer = "already known"
    /\ attempt.status_before # "success"
    /\ \E i \in 1..Len(chain_txs) : chain_txs[i].for = attempt.hash
    /\ RecordFor(attempt.hash).status = "success"

\* C15: a block whose fetch failed with a transient error stays ahead of
\* last_block until a later fetch of it succeeds.
C15_FailedFetchLeavesBlock ==
    \A blk \in scanlog.failed : last_block < blk

\* C16: a record whose broadcast timed out is deferred, not marked failed
\* (so that no later attempt gives it another nonce).
C16_TimeoutDefers ==
    attempt.answer = "timeout" =>
        /\ RecordFor(attempt.hash).status # "failed"
        /\ attempt.outcome = "defer"

\* C17: a status response is a snapshot of one moment: in particular it
\* never reports persisted_block above last_block.
C17_StatusIsSnapshot ==
    response.complete => response.persisted_block <= response.last_block

\* the fields of EngineState
EngineState ==
    <<last_block, persisted_block, processed_count, history, pending_hashes, dirty>>

\* C18: the fields of EngineState change only in steps of the background
\* loop and of the start (or are lost with the process); a step of get_status
\* or get_history changes none of them.
C18_AccessorsOnlyRead ==
    [][EngineState' # EngineState =>
          \/ pc' = "stopped"
          \/ /\ UNCHANGED rd_vars
             /\ pc \in {"stopped", "scan", "resolve", "persist", "persist_fail",
                        "persist_exc"}]_vars

\* both endpoints have answered while the engine held records and pending
\* hashes
C18_EndpointsAnswered ==
    /\ response.complete
    /\ response.pending_count > 0
    /\ history_response # <<>>
    /\ Len(history) >= 2

\* a step of the batch that called _echo_transfer for a record
AttemptStep ==
    /\ pc = "resolve"
    /\ mined' = mined
    /\ attempt'.outcome \notin {"none", "not found"}

\* C19 as stated: an attempt is given the local nonce counter, and the
\* counter advances by one when the broadcast of that attempt was accepted,
\* and only then.
C19_NonceAdvancesOnBroadcastOnly ==
    [][AttemptStep =>
          /\ attempt'.nonce = current_nonce
          /\ current_nonce' = IF attempt'.answer = "accepted"
                              THEN current_nonce + 1 ELSE current_nonce]_vars

\* C19 amended: the batch's nonce is read from the gateway once, when the
\* batch begins; every attempt is given the local counter; the counter
\* advances by one when the record ends success (its broadcast accepted, or
\* answered "already known") and stays otherwise (skipped, deferred, failed);
\* a transaction the ledger takes in sits at the attempt's nonce, and a
\* broadcast taken in without its answer ends the batch.
C19_BatchNonces ==
    [][/\ (pc = "clear" /\ pc' = "resolve") => current_nonce' = mined
       /\ (pc = "resolve" /\ pc' # "stopped" /\ ~AttemptStep)
             => current_nonce' = current_nonce
       /\ AttemptStep =>
             /\ attempt'.nonce = current_nonce
             /\ current_nonce' =
                   IF attempt'.answer \in {"accepted", "already known"}
                   THEN current_nonce + 1 ELSE current_nonce
             /\ attempt'.outcome \in {"skipped", "defer", "failed"}
                   => current_nonce' = current_nonce
             /\ chain_txs' # chain_txs =>
                   /\ Len(chain_txs') > current_nonce
                   /\ \A i \in 1..Len(chain_txs) :
                         i # current_nonce + 1 => chain_txs'[i] = chain_txs[i]
                   /\ attempt'.answer \in {"accepted", "timeout"}
             /\ attempt'.answer = "timeout" => pc' = "persist_fail"]_vars

\* two echoes were accepted in one batch, with the nonces 0 and 1
C19_TwoAcceptedInOneBatch ==
    /\ attempt.answer = "accepted"
    /\ attempt.nonce = 1
    /\ attempt.nonce_after = 2
    /\ mined = 0
    /\ Cardinality(attempted) = 2
    /\ Len(chain_txs) = 2

C21_ErrorMarksFailed ==
    [][(/\ AttemptStep
        /\ attempt'.signed
        /\ attempt'.answer \notin {"accepted", "already known"}) =>
          LET i == IndexOf(history, attempt'.hash)
          IN  /\ history'[i].status = "failed"
              /\ history'[i].echo_value =
                     IF attempt'.answer \in {"none", "drop", "timeout"}
                     THEN RequestError ELSE attempt'.answer
              /\ attempt'.hash \in Range(pending_hashes')
              /\ history'[i].echo_hash = history[i].echo_hash
              /\ history'[i].gas_fee = history[i].gas_fee
              /\ processed_count' = processed_count]_vars

\* the ledger has rejected a broadcast and the record carries its answer
C21_RejectedBroadcastRecorded ==
    /\ attempt.sent
    /\ attempt.answer \notin {"accepted", "already known", "drop", "timeout"}
    /\ RecordFor(attempt.hash).status = "failed"
    /\ RecordFor(attempt.hash).echo_value = attempt.answer
    /\ attempt.hash \in Range(pending_hashes)

\* C22: an attempt whose balance query or fee query raised changes nothing
\* of the record: its status and its detail are what they were before the
\* attempt, and it is not marked failed.
C22_QueryErrorChangesNothing ==
    (/\ attempt.outcome \notin {"none", "not found"}
     /\ (attempt.balance = -1 \/ attempt.max_fee = -1)) =>
        /\ RecordFor(attempt.hash).status = attempt.status_before
        /\ RecordFor(attempt.hash).echo_value # RequestError

\* the step that ends an iteration with _persist_if_dirty
PersistStep ==
    /\ pc \in {"persist", "persist_fail", "persist_exc"}
    /\ pc' = "poll"

\* C23: _persist_if_dirty writes the snapshot only when the state is dirty
\* and the save interval has elapsed since the last successful save; after a
\* successful write the blob holds the in-memory last_block, processed_count,
\* history and pending_hashes, dirty is false and persisted_block equals
\* last_block; when the state is not dirty, or the write fails, nothing of
\* the store and of the engine changes.
C23_PersistOnlyWhenDue ==
    [][PersistStep =>
          /\ s3_state' # s3_state => (dirty /\ save_due)
          /\ dirty' # dirty => (dirty /\ save_due)
          /\ (dirty /\ ~dirty') =>
                /\ s3_state' = SnapshotOf(Mem)
                /\ s3_state' = SnapshotOf(Mem)'
                /\ persisted_block' = last_block'
                /\ ~save_due'
          /\ (~dirty \/ ~save_due \/ dirty') => UNCHANGED <<mem_vars, s3_state>>]_vars

\* a snapshot with both transfers has just been written
C23_SnapshotWritten ==
    /\ pc = "poll"
    /\ ~dirty
    /\ ~save_due
    /\ Len(history) = 2
    /\ s3_state = SnapshotOf(Mem)
    /\ persisted_block = last_block

\* C24: once last_block is block_checkpoint_interval or more blocks ahead of
\* persisted_block the state is dirty: the scan of a block without transfers
\* sets it, and it holds at the end of every iteration.
C24_CheckpointOnIdle ==
    (pc # "stopped" /\ last_block - persisted_block >= block_checkpoint_interval)
        => dirty

\* the scan has gone block_checkpoint_interval blocks past the last save
\* without finding a new transfer or attempting an echo, and the state is
\* dirty
C24_IdleCheckpointMarked ==
    /\ pc = "clear"
    /\ dirty
    /\ last_block - persisted_block >= block_checkpoint_interval
    /\ attempt = NoAttempt
    /\ processed_count = 0
    /\ s3_state.absent
    /\ \A i \in 1..Len(history) : history[i].status \in {"received", "failed"}

\* a start that went through the legacy recovery
LegacyStartStep ==
    /\ pc = "stopped"
    /\ pc' = "poll"
    /\ history' # <<>>
    /\ s3_state.absent

\* C25: after the legacy recovery pending_hashes holds the hash of every
\* legacy record whose status is received, processing or failed, and of no
\* record that is success or skipped.
C25_LegacyPendsNonTerminal ==
    [][LegacyStartStep =>
          \A i \in 1..Len(s3_echoes) :
              s3_echoes[i].status \in {"received", "processing", "failed"}
                  <=> s3_echoes[i].incoming_hash \in Range(pending_hashes')]_vars

C27_HistoryNewestFirst ==
    /\ Len(history) <= HistoryCap
    /\ \A i \in 1..Len(history) : \A j \in i..Len(history) :
          history[i].block_number >= history[j].block_number

\* C28: within a process a hash leaves pending_hashes only in a step that
\* leaves its record in history with status success or skipped; a transfer
\* whose record is received, processing or failed, or has been evicted from
\* history, stays pending.
C28_OnlyTerminalLeavesPending ==
    [][pc' # "stopped" =>
          \A h \in Range(pending_hashes) \ Range(pending_hashes') :
              /\ InHistory(history', h)
              /\ history'[IndexOf(history', h)].status \in {"success", "skipped"}]_vars

\* the record of hash h in a history that holds it
RecordIn(hist, h) == hist[IndexOf(hist, h)]

\* the status changes of one step of the batch: _clear_pending puts the
\* record in processing and _echo_transfer leaves it there (defer) or ends
\* it success, skipped or failed
StatusSteps ==
    {"received", "failed", "processing"}
        \X {"processing", "success", "skipped", "failed"}

\* C29: a record is created received; within a process its status changes
\* only along received -> processing, failed -> processing and processing ->
\* success, skipped or failed; a record that is success or skipped is never
\* changed again, and echo_hash and gas_fee are written at most once.
C29_StatusMachine ==
    [][(pc # "stopped" /\ pc' # "stopped") =>
          /\ \A i \in 1..Len(history') :
                ~InHistory(history, history'[i].incoming_hash) =>
                    /\ pc = "scan"
                    /\ history'[i].status = "received"
                    /\ history'[i].echo_hash = None
                    /\ history'[i].gas_fee = None
          /\ \A i \in 1..Len(history) :
                InHistory(history', history[i].incoming_hash) =>
                    LET old == history[i]
                        new == RecordIn(history', old.incoming_hash)
                    IN  /\ old.status \in {"success", "skipped"} => new = old
                        /\ new.status # old.status =>
                              /\ pc = "resolve"
                              /\ <<old.status, new.status>> \in StatusSteps
                        /\ old.echo_hash # None => new.echo_hash = old.echo_hash
                        /\ old.gas_fee # None => new.gas_fee = old.gas_fee]_vars

\* a record that had failed was attempted again and ended success, while
\* another record is terminal
C29_FailedThenSuccess ==
    /\ attempt.status_before = "failed"
    /\ RecordFor(attempt.hash).status = "success"
    /\ RecordFor(attempt.hash).echo_hash # None
    /\ \E i \in 1..Len(history) :
          /\ history[i].incoming_hash # attempt.hash
          /\ history[i].status \in {"success", "skipped"}

\* the records of history whose status becomes success in this step
BecameSuccess ==
    {i \in 1..Len(history) :
        /\ history[i].status # "success"
        /\ InHistory(history', history[i].incoming_hash)
        /\ RecordIn(history', history[i].incoming_hash).status = "success"}

\* C30: within a process every step that makes a record success sets its
\* echo_hash and gas_fee and adds exactly one to processed_count, and no
\* other step changes processed_count.
C30_SuccessCounted ==
    [][(pc # "stopped" /\ pc' # "stopped") =>
          /\ \A i \in BecameSuccess :
                LET new == RecordIn(history', history[i].incoming_hash)
                IN  /\ new.echo_hash # None
                    /\ new.gas_fee # None
          /\ processed_count' = processed_count + Cardinality(BecameSuccess)]_vars

TransfersToRecord ==
    {tx \in Range(BlockTransactions(b)) :
        /\ tx.to # None
        /\ Lower(tx.to) = Lower(address)
        /\ tx.value > 0
        /\ Lower(tx.from) # Lower(address)
        /\ ~InHistory(history, TxHashStr(tx.hash))}

\* C32: scanning a block creates a received record, and appends its hash to
\* pending_hashes, for exactly the transactions of TransfersToRecord; every
\* other record and pending hash stays as it was.
C32_ScanRecordsExactlyTransfers ==
    [][(pc = "scan" /\ pc' # "stopped") =>
          LET new == {TxHashStr(tx.hash) : tx \in TransfersToRecord}
          IN  /\ {history'[i].incoming_hash : i \in 1..Len(history')}
                    = {history[i].incoming_hash : i \in 1..Len(history)} \cup new
              /\ Len(history') = Len(history) + Cardinality(new)
              /\ \A i \in 1..Len(history) :
                    RecordIn(history', history[i].incoming_hash) = history[i]
              /\ \A tx \in TransfersToRecord :
                    LET rec == RecordIn(history', TxHashStr(tx.hash))
                    IN  /\ rec.status = "received"
                        /\ rec.from = tx.from
                        /\ rec.value = str(tx.value)
                        /\ rec.block_number = b
                        /\ rec.echo_hash = None
                        /\ rec.gas_fee = None
              /\ Len(pending_hashes') = Len(pending_hashes) + Cardinality(new)
              /\ SubSeq(pending_hashes', 1, Len(pending_hashes)) = pending_hashes
              /\ Range(pending_hashes') = Range(pending_hashes) \cup new]_vars

\* block 1 has been scanned: the transfer history did not hold has a record,
\* the one it held has no second record
C32_NewTransferRecorded ==
    /\ pc = "clear"
    /\ last_block = 1
    /\ pending_hashes = <<"0xb2", "0xa1">>
    /\ Len(history) = 2
    /\ history[1].incoming_hash = "0xa1"
    /\ history[1].status = "received"
    /\ history[2].incoming_hash = "0xb2"

\* pend is exactly the hashes of the records of hist that are received,
\* processing or failed, each once
PendingExact(hist, pend) ==
    /\ \A i, j \in 1..Len(pend) : pend[i] = pend[j] => i = j
    /\ \A i \in 1..Len(pend) :
          /\ InHistory(hist, pend[i])
          /\ RecordIn(hist, pend[i]).status \in {"received", "processing", "failed"}
    /\ \A i \in 1..Len(hist) :
          hist[i].status \in {"received", "processing", "failed"}
              => hist[i].incoming_hash \in Range(pend)

\* C33: between iterations, and in every stored snapshot, pending_hashes is
\* exactly the set of the records that are not terminal.
C33_PendingIsNonTerminal ==
    /\ pc = "poll" => PendingExact(history, pending_hashes)
    /\ ~s3_state.absent => PendingExact(s3_state.history, s3_state.pending_hashes)

\* C34: an echo transaction the ledger accepts never takes the nonce of a
\* transaction it accepted for another record: a batch that begins while an
\* earlier echo is unconfirmed starts above that echo's nonce.
C34_NonceNotReused ==
    (/\ attempt.answer = "accepted"
     /\ attempt.nonce < Len(attempt.ledger_before)) =>
        attempt.ledger_before[attempt.nonce + 1].for = attempt.hash

\* C35: a pending record is not starved by the records before it: while
\* 0xb2 is pending it is eventually attempted or resolved, whatever happens
\* to the attempts of 0xa1 before it.
C35_NoStarvation ==
    ("0xb2" \in Range(pending_hashes))
        ~> (attempt.hash = "0xb2" \/ "0xb2" \notin Range(pending_hashes))

\* the blocks this process has scanned that a restart from the stored
\* snapshot would not scan again (in a run where every fetch succeeds)
ScannedAndRestored ==
    (boot.last_block + 1)..Min(last_block, s3_state.last_block)

\* C36: a crash now and a restart from the stored snapshot would lose no
\* detected transfer: a qualifying transfer of a block this process has
\* scanned either has a record in the snapshot's history, or was evicted
\* after it became terminal, or is in a block above the snapshot's
\* last_block.
C36_NoDetectedTransferLost ==
    (boot.from # "none" /\ ~s3_state.absent) =>
        \A n \in ScannedAndRestored :
            \A tx \in Range(BlockTransactions(n)) :
                Qualifies(tx) =>
                    \/ InHistory(s3_state.history, TxHashStr(tx.hash))
                    \/ TxHashStr(tx.hash) \in ever_terminal

\* C37: a save whose put fails (the state was dirty and due, and is dirty
\* still after _persist_if_dirty) changes nothing: the blob, persisted_block,
\* the time of the last save and the rest of the in-memory state are as
\* before, so the next _persist_if_dirty tries the save again.
C37_FailedSaveChangesNothing ==
    [][(PersistStep /\ dirty /\ save_due /\ dirty') =>
          /\ UNCHANGED <<mem_vars, s3_state>>
          /\ dirty' /\ save_due']_vars

\* a save has failed with a detected transfer not yet stored
C37_SaveFailed ==
    /\ pc = "poll"
    /\ dirty
    /\ save_due
    /\ history # <<>>
    /\ s3_state.absent
    /\ persisted_block < last_block

\* C38: a snapshot in the store is never overwritten by a state that lacks
\* its records: in particular not by a process whose start could not read
\* it, which would write a history without them and a last_block taken from
\* the current height.
C38_SnapshotNotLost ==
    [][(~s3_state.absent /\ s3_state' # s3_state) =>
          /\ ~s3_state'.absent
          /\ \A i \in 1..Len(s3_state.history) :
                InHistory(s3_state'.history, s3_state.history[i].incoming_hash)
          /\ \A i \in 1..Len(s3_state.pending_hashes) :
                InHistory(s3_state'.history, s3_state.pending_hashes[i])]_vars

\* C40: a start() that raised before it launched the loop leaves the engine
\* not running, so that a later start() goes through recovery again.
C40_FailedStartNotRunning ==
    pc = "start_failed" => ~is_running

\* C39: for any sequence of start() calls and shutdowns, at most one
\* background loop is alive at any time.  It fails: a start() that follows
\* a shutdown before the earlier loop has tested the flag again launches a
\* second loop, and the earlier one goes on.
C39_AtMostOneLoop == threads <= 1

====
